---- MODULE Spec2Model ----
(***************************************************************************)
(* Quicksort with a first-element pivot and with a random pivot            *)
(* (src/main.py): the two sorters and their tracing variants as a call     *)
(* stack machine, the input generators, one benchmark trial, and the       *)
(* self-test loop.                                                         *)
(***************************************************************************)
EXTENDS Integers, Sequences, FiniteSets, Bags, TLC

\* ---------------------------------------------------------------- bounds
MaxLen == 4        \* longest list handed to a sorter by Call
MaxVal == 2        \* list elements range over 0..MaxVal
MaxN == 7          \* largest size n of a benchmark trial
RandLen == 2       \* length of the random test array (10 in the source)

\* ------------------------------------------------------ program constants
RecursionLimit == 10000     \* sys.setrecursionlimit(10000)
MaxBenchSize == 5000        \* largest entry of sizes

VARIABLES
    func,          \* the sorter being run
    input,         \* the elements of the caller's list when the call was made
    callerArr,     \* the caller's list object, as it is now
    stack,         \* active calls, outermost first
    out,           \* lines printed by the tracing variants
    result,        \* value returned by the top-level call
    phase,         \* "idle", "running", "returned"
    round,         \* 1: sort(S); 2: sort applied to the result of round 1
    firstResult,   \* value returned in round 1
    maxActive,     \* largest number of simultaneously active calls so far
    gen,           \* input generator of the benchmark trial ("none" outside one)
    n,             \* size of the benchmark trial
    test_arrays,   \* test_quicksort: the battery
    tIdx,          \* test_quicksort: position of the loop in test_arrays
    tLog,          \* test_quicksort: one entry per array printed
    tFailure,      \* test_quicksort: message of the AssertionError raised, or "none"
    tMsg           \* test_quicksort: final message printed, or ""

vars == <<func, input, callerArr, stack, out, result, phase, round, firstResult,
          maxActive, gen, n, test_arrays, tIdx, tLog, tFailure, tMsg>>

sorterVars == <<func, input, callerArr, stack, out, result, phase, round,
                firstResult, maxActive, gen, n>>
testVars == <<test_arrays, tIdx, tLog, tFailure, tMsg>>

\* --------------------------------------------------------------- helpers
Values == 0..MaxVal

SeqsOfLen(k) == [1..k -> Values]

SeqsUpTo(k) == UNION {SeqsOfLen(j) : j \in 0..k}

Max(a, b) == IF a >= b THEN a ELSE b

Abs(a) == IF a >= 0 THEN a ELSE -a

\* the multiset of a list's elements
BagOf(s) == [v \in {s[i] : i \in 1..Len(s)} |-> Cardinality({i \in 1..Len(s) : s[i] = v})]

IsNonDecreasing(s) == \A i \in 1..Len(s) - 1 : s[i] <= s[i + 1]

\* Python's built-in sorted(), the reference order of the self-test
Insert(x, s) ==
    LET k == Cardinality({i \in 1..Len(s) : s[i] <= x})
    IN  SubSeq(s, 1, k) \o <<x>> \o SubSeq(s, k + 1, Len(s))

RECURSIVE sorted(_)
sorted(s) ==
    IF s = <<>> THEN <<>>
    ELSE Insert(s[Len(s)], sorted(SubSeq(s, 1, Len(s) - 1)))

\* list(range(k))
Range(k) == [i \in 1..k |-> i - 1]

\* ------------------------------------------------------------ partition
\* [x for x in arr[1:] if x < pivot]
LessOfReversed(arr, pivot) == SelectSeq(Tail(arr), LAMBDA x : x > pivot)

LessOf(arr, pivot) == SelectSeq(Tail(arr), LAMBDA x : x < pivot)

\* [x for x in arr[1:] if x >= pivot]
GreaterOfStrict(arr, pivot) == SelectSeq(Tail(arr), LAMBDA x : x > pivot)

GreaterOfKeepingPivot(arr, pivot) == SelectSeq(arr, LAMBDA x : x >= pivot)

GreaterOf(arr, pivot) == SelectSeq(Tail(arr), LAMBDA x : x >= pivot)

\* arr[0], arr[pivot_index] = arr[pivot_index], arr[0]   (pivot_index is 0-based)
SwapFirstOverwrite(arr, pivot_index) == [arr EXCEPT ![1] = arr[pivot_index + 1]]

SwapFirst(arr, pivot_index) ==
    [arr EXCEPT ![1] = arr[pivot_index + 1], ![pivot_index + 1] = arr[1]]

\* sorted_less + [pivot] + sorted_greater
CombinePivotLast(sorted_less, pivot, sorted_greater) ==
    sorted_less \o sorted_greater \o <<pivot>>

Combine(sorted_less, pivot, sorted_greater) ==
    sorted_less \o <<pivot>> \o sorted_greater

\* depth + 1, the depth handed to both recursive calls of a tracing variant
ChildDepthSame(depth) == depth

ChildDepth(depth) == depth + 1

\* ----------------------------------------------------- input generators
MidFirst(arr) == 0

MidLow(arr) == (Len(arr) - 1) \div 2

\* mid = len(arr) // 2
Mid(arr) == Len(arr) \div 2

RECURSIVE generate_best_case(_)
generate_best_case(arr) ==
    IF Len(arr) <= 1 THEN arr
    ELSE LET mid == Mid(arr)
         IN  <<arr[mid + 1]>>
                 \o generate_best_case(SubSeq(arr, 1, mid))
                 \o generate_best_case(SubSeq(arr, mid + 2, Len(arr)))

generate_worst_case_one_more(k) == Range(k + 1)

generate_worst_case(k) == Range(k)

\* ------------------------------------------- the sorters as functions
RECURSIVE quicksort_non_random(_)
quicksort_non_random(arr) ==
    IF Len(arr) <= 1 THEN arr
    ELSE LET pivot == arr[1]
             less == LessOf(arr, pivot)
             greater == GreaterOf(arr, pivot)
         IN  Combine(quicksort_non_random(less), pivot, quicksort_non_random(greater))

\* every value quicksort_random can return, over all draws of random.randint
RECURSIVE quicksort_random(_)
quicksort_random(arr) ==
    IF Len(arr) <= 1 THEN {arr}
    ELSE UNION {
            LET swapped == SwapFirst(arr, pivot_index)
                pivot == swapped[1]
                less == LessOf(swapped, pivot)
                greater == GreaterOf(swapped, pivot)
            IN  {Combine(sl, pivot, sg) :
                    sl \in quicksort_random(less), sg \in quicksort_random(greater)}
            : pivot_index \in 0..Len(arr) - 1}

\* ------------------------------------------------- the call stack machine
Funcs == {"quicksort_non_random", "quicksort_random",
          "quicksort_non_random_debug", "quicksort_random_debug"}

IsRandom(f) == f \in {"quicksort_random", "quicksort_random_debug"}

IsDebug(f) == f \in {"quicksort_non_random_debug", "quicksort_random_debug"}

\* No list of the model is longer than this, and a call is never nested deeper.
StackCap == MaxLen + MaxN + 2

\* One activation.  pc: "start" (entered), "less" (waiting for the call on
\* less), "greater" (waiting for the call on greater), "ret" (return value
\* computed).  depth is the depth argument of the tracing variants; the plain
\* variants have no such argument and never read it.
NewFrame(arr, depth) ==
    [arr |-> arr, depth |-> depth, pc |-> "start", pivot |-> 0,
     less |-> <<>>, greater |-> <<>>, sorted_less |-> <<>>, ret |-> <<>>]

Top == stack[Len(stack)]

SetTop(f) == [stack EXCEPT ![Len(stack)] = f]

\* a printed line: "base" (x = arr), "pivot" (x = <<pivot>>, y = arr),
\* "part" (x = less, y = greater); depth is the indentation
Line(depth, kind, x, y) == [depth |-> depth, line |-> kind, x |-> x, y |-> y]

NoTest ==
    /\ test_arrays = <<>>
    /\ tIdx = 0
    /\ tLog = <<>>
    /\ tFailure = "none"
    /\ tMsg = ""

NoSorter ==
    /\ func = "quicksort_non_random"
    /\ input = <<>>
    /\ callerArr = <<>>
    /\ stack = <<>>
    /\ out = <<>>
    /\ result = <<>>
    /\ phase = "idle"
    /\ round = 1
    /\ firstResult = <<>>
    /\ maxActive = 0
    /\ gen = "none"
    /\ n = 0

\* A caller holds a list and is about to hand it to one of the four sorters.
Init ==
    /\ func \in Funcs
    /\ input \in SeqsUpTo(MaxLen)
    /\ callerArr = input
    /\ stack = <<>>
    /\ out = <<>>
    /\ result = <<>>
    /\ phase = "idle"
    /\ round = 1
    /\ firstResult = <<>>
    /\ maxActive = 0
    /\ gen = "none"
    /\ n = 0
    /\ NoTest

\* the top-level call: sort_func(arr), depth defaulting to 0
Call ==
    /\ phase = "idle"
    /\ gen = "none"
    /\ phase' = "running"
    /\ stack' = <<NewFrame(callerArr, 0)>>
    /\ maxActive' = 1
    /\ UNCHANGED <<func, input, callerArr, out, result, round, firstResult, gen, n>>
    /\ UNCHANGED testVars

\* if len(arr) <= 1: (print) return arr
BaseCase ==
    /\ phase = "running"
    /\ stack # <<>>
    /\ Top.pc = "start"
    /\ Len(Top.arr) <= 1
    /\ stack' = SetTop([Top EXCEPT !.pc = "ret", !.ret = Top.arr])
    /\ out' = IF IsDebug(func)
              THEN Append(out, Line(Top.depth, "base", Top.arr, <<>>))
              ELSE out
    /\ UNCHANGED <<func, input, callerArr, result, phase, round, firstResult,
                   maxActive, gen, n>>
    /\ UNCHANGED testVars

\* The recursive case up to the call on less, for the array as it is after the
\* pivot has been brought to the front.
PartitionStep(arr) ==
    LET pivot == arr[1]
        less == LessOf(arr, pivot)
        greater == GreaterOf(arr, pivot)
        f == [Top EXCEPT !.arr = arr, !.pivot = pivot, !.less = less,
                         !.greater = greater, !.pc = "less"]
    IN  /\ stack' = Append(SetTop(f), NewFrame(less, ChildDepth(Top.depth)))
        /\ maxActive' = Max(maxActive, Len(stack) + 1)
        /\ out' = IF IsDebug(func)
                  THEN out \o <<Line(Top.depth, "pivot", <<pivot>>, arr),
                                 Line(Top.depth, "part", less, greater)>>
                  ELSE out

\* quicksort_non_random(_debug): pivot = arr[0]
Partition ==
    /\ phase = "running"
    /\ stack # <<>>
    /\ ~IsRandom(func)
    /\ Top.pc = "start"
    /\ Len(Top.arr) >= 2
    /\ Len(stack) < StackCap
    /\ PartitionStep(Top.arr)
    /\ UNCHANGED <<func, input, callerArr, result, phase, round, firstResult, gen, n>>
    /\ UNCHANGED testVars

\* quicksort_random(_debug): draw pivot_index, swap it to the front in place.
\* The list of the outermost call is the caller's own object.
PartitionRandom ==
    /\ phase = "running"
    /\ stack # <<>>
    /\ IsRandom(func)
    /\ Top.pc = "start"
    /\ Len(Top.arr) >= 2
    /\ Len(stack) < StackCap
    /\ \E pivot_index \in 0..Len(Top.arr) - 1 :
           LET swapped == SwapFirst(Top.arr, pivot_index)
           IN  /\ PartitionStep(swapped)
               /\ callerArr' = IF Len(stack) = 1 THEN swapped ELSE callerArr
    /\ UNCHANGED <<func, input, result, phase, round, firstResult, gen, n>>
    /\ UNCHANGED testVars

\* the call on less returns: keep its value, call on greater
ReturnLess ==
    /\ phase = "running"
    /\ Len(stack) >= 2
    /\ Top.pc = "ret"
    /\ stack[Len(stack) - 1].pc = "less"
    /\ LET parent == stack[Len(stack) - 1]
           f == [parent EXCEPT !.sorted_less = Top.ret, !.pc = "greater"]
           below == SubSeq(stack, 1, Len(stack) - 2)
       IN  stack' = below \o <<f, NewFrame(parent.greater, ChildDepth(parent.depth))>>
    /\ UNCHANGED <<func, input, callerArr, out, result, phase, round, firstResult,
                   maxActive, gen, n>>
    /\ UNCHANGED testVars

\* the call on greater returns: the caller computes its own return value
ReturnGreater ==
    /\ phase = "running"
    /\ Len(stack) >= 2
    /\ Top.pc = "ret"
    /\ stack[Len(stack) - 1].pc = "greater"
    /\ LET parent == stack[Len(stack) - 1]
           f == [parent EXCEPT !.ret = Combine(parent.sorted_less, parent.pivot, Top.ret),
                               !.pc = "ret"]
           below == SubSeq(stack, 1, Len(stack) - 2)
       IN  stack' = Append(below, f)
    /\ UNCHANGED <<func, input, callerArr, out, result, phase, round, firstResult,
                   maxActive, gen, n>>
    /\ UNCHANGED testVars

\* the outermost call returns to its caller
ReturnTop ==
    /\ phase = "running"
    /\ Len(stack) = 1
    /\ Top.pc = "ret"
    /\ result' = Top.ret
    /\ stack' = <<>>
    /\ phase' = "returned"
    /\ UNCHANGED <<func, input, callerArr, out, round, firstResult, maxActive, gen, n>>
    /\ UNCHANGED testVars

\* sort(sort(S)): the value just returned is handed to the same sorter again
Resort ==
    /\ phase = "returned"
    /\ round = 1
    /\ gen = "none"
    /\ ~IsDebug(func)
    /\ round' = 2
    /\ firstResult' = result
    /\ input' = result
    /\ callerArr' = result
    /\ result' = <<>>
    /\ stack' = <<NewFrame(result, 0)>>
    /\ phase' = "running"
    /\ maxActive' = 1
    /\ UNCHANGED <<func, out, gen, n>>
    /\ UNCHANGED testVars

Next ==
    \/ Call
    \/ BaseCase
    \/ Partition
    \/ PartitionRandom
    \/ ReturnLess
    \/ ReturnGreater
    \/ ReturnTop
    \/ Resort

Spec == Init /\ [][Next]_vars

\* Execution is single-threaded and synchronous: a step that can be taken is taken.
FairSpec == Spec /\ WF_vars(Next)

\* ------------------------------------------------------ a benchmark trial
\* benchmark_quicksort(quicksort_non_random, <generator>, sizes): one trial of
\* one size, with the best-case or the worst-case generator.
BenchInit ==
    /\ func = "quicksort_non_random"
    /\ gen \in {"best", "worst"}
    /\ n \in 0..MaxN
    /\ input = <<>>
    /\ callerArr = <<>>
    /\ stack = <<>>
    /\ out = <<>>
    /\ result = <<>>
    /\ phase = "idle"
    /\ round = 1
    /\ firstResult = <<>>
    /\ maxActive = 0
    /\ NoTest

\* arr = input_generator(n); sort_func(arr)
Trial ==
    /\ phase = "idle"
    /\ gen # "none"
    /\ LET arr == IF gen = "best" THEN generate_best_case(Range(n))
                  ELSE generate_worst_case(n)
       IN  /\ input' = arr
           /\ callerArr' = arr
           /\ stack' = <<NewFrame(arr, 0)>>
    /\ phase' = "running"
    /\ maxActive' = 1
    /\ UNCHANGED <<func, out, result, round, firstResult, gen, n>>
    /\ UNCHANGED testVars

BenchNext ==
    \/ Trial
    \/ BaseCase
    \/ Partition
    \/ ReturnLess
    \/ ReturnGreater
    \/ ReturnTop

BenchSpec == BenchInit /\ [][BenchNext]_vars

\* ---------------------------------------------------------- the self-test
Literals ==
    << <<>>, <<1>>, <<2, 1>>, <<1, 2, 3, 4, 5>>, <<5, 4, 3, 2, 1>>,
       <<3, 1, 2, 1, 5, 3>> >>

\* What the loop body can be handed back by a sorter.  The assertions exist for
\* sorters that are wrong, so the loop is run against every answer: the values
\* the two functions above return, and answers that are not the sorted order.
WrongAnswers(arr) == {arr, <<>>, <<0>>} \ {sorted(arr)}

NonRandomOutcomes(arr) == {quicksort_non_random(arr)} \cup WrongAnswers(arr)

RandomOutcomes(arr) == quicksort_random(arr) \cup WrongAnswers(arr)

\* the two assert statements, in order
VerdictNonRandomOnly(expected, result_non_random, result_random) ==
    IF result_non_random # expected THEN "Non-random quicksort failed!"
    ELSE "none"

Verdict(expected, result_non_random, result_random) ==
    IF result_non_random # expected THEN "Non-random quicksort failed!"
    ELSE IF result_random # expected THEN "Random pivot quicksort failed!"
    ELSE "none"

TestInit ==
    /\ NoSorter
    /\ NoTest

\* test_arrays = [...], the last one drawn at random
BuildTestArrays ==
    /\ tIdx = 0
    /\ test_arrays = <<>>
    /\ \E r \in SeqsOfLen(RandLen) : test_arrays' = Append(Literals, r)
    /\ tIdx' = 1
    /\ UNCHANGED <<tLog, tFailure, tMsg>>
    /\ UNCHANGED sorterVars

\* one pass through the body of "for arr in test_arrays"
TestIteration ==
    /\ tIdx \in 1..Len(test_arrays)
    /\ tFailure = "none"
    /\ LET arr == test_arrays[tIdx]
           expected == sorted(arr)
       IN  \E result_non_random \in NonRandomOutcomes(arr),
              result_random \in RandomOutcomes(arr) :
               LET verdict == Verdict(expected, result_non_random, result_random)
               IN  /\ tLog' = Append(tLog, [arr |-> arr, expected |-> expected,
                                            non_random |-> result_non_random,
                                            random |-> result_random])
                   /\ tFailure' = verdict
                   /\ tIdx' = IF verdict = "none" THEN tIdx + 1 ELSE tIdx
    /\ UNCHANGED <<test_arrays, tMsg>>
    /\ UNCHANGED sorterVars

\* print("All quicksort tests passed!")
TestPassed ==
    /\ test_arrays # <<>>
    /\ tIdx = Len(test_arrays) + 1
    /\ tFailure = "none"
    /\ tMsg = ""
    /\ tMsg' = "All quicksort tests passed!"
    /\ UNCHANGED <<test_arrays, tIdx, tLog, tFailure>>
    /\ UNCHANGED sorterVars

TestNext ==
    \/ BuildTestArrays
    \/ TestIteration
    \/ TestPassed

TestSpec == TestInit /\ [][TestNext]_vars

\* ====================================================== checked properties
Partitioned(f) == f.pc \in {"less", "greater", "ret"} /\ Len(f.arr) >= 2

\* C1: whenever a top-level call of quicksort_non_random or quicksort_random
\* (and of their tracing variants) has returned, whatever pivot indices were
\* drawn, the value returned is the reference sorted order of the list passed:
\* non-decreasing, of the same length, with the same multiset of elements.
SortsCorrectly ==
    phase = "returned" =>
        /\ result = sorted(input)
        /\ IsNonDecreasing(result)
        /\ Len(result) = Len(input)
        /\ BagOf(result) = BagOf(input)

SortsCorrectlyWitness ==
    /\ phase = "returned"
    /\ round = 1
    /\ func = "quicksort_random"
    /\ Len(input) >= 3
    /\ ~IsNonDecreasing(input)
    /\ \E i, j \in 1..Len(input) : i # j /\ input[i] = input[j]

\* C2 as stated: after a top-level call of either sorter has returned, the
\* caller's list holds the same elements in the same positions as before.
CallerArrayUnchanged ==
    phase = "returned" => callerArr = input

\* b is a with its first element exchanged with the element at one position
ExchangedWithFirst(a, b) ==
    /\ Len(b) = Len(a)
    /\ \/ b = a
       \/ \E k \in 1..Len(a) :
              /\ b[1] = a[k]
              /\ b[k] = a[1]
              /\ \A j \in 1..Len(a) : j \notin {1, k} => b[j] = a[j]

\* C2 amended: during and after a top-level call, the first-element sorters
\* leave the caller's list as it was; the random-pivot sorters leave it as it
\* was except that its first element has been exchanged with the element at the
\* pivot index drawn by the outermost call.
CallerArrayEffect ==
    phase \in {"running", "returned"} =>
        IF IsRandom(func) THEN ExchangedWithFirst(input, callerArr)
        ELSE callerArr = input

CallerArrayEffectWitness ==
    /\ phase = "returned"
    /\ func = "quicksort_random"
    /\ Len(input) >= 3
    /\ callerArr # input
    /\ callerArr[1] # input[1]

\* C3 as stated: generate_best_case([0,1,2,3,4]) is [2,0,1,3,4].
BestCaseLiteral ==
    (gen = "best" /\ n = 5 /\ phase # "idle") => input = <<2, 0, 1, 3, 4>>

\* C3 amended: generate_best_case([0,1,2,3,4]) is [2,1,0,4,3]: a subrange of
\* two elements contributes its second element first (index 2 // 2 = 1).
BestCaseLiteralAmended ==
    (gen = "best" /\ n = 5 /\ phase # "idle") => input = <<2, 1, 0, 4, 3>>

BestCaseLiteralWitness ==
    /\ gen = "best"
    /\ n = 5
    /\ phase = "running"
    /\ Len(input) = 5

\* C4: while quicksort_non_random sorts generate_best_case([0..n-1]), every
\* call on two or more elements, at every depth, splits them into a less and a
\* greater partition whose lengths differ by at most 1.
BestCaseBalanced ==
    gen = "best" =>
        \A i \in 1..Len(stack) :
            Partitioned(stack[i]) =>
                Abs(Len(stack[i].less) - Len(stack[i].greater)) <= 1

BestCaseBalancedWitness ==
    /\ gen = "best"
    /\ \E i \in 2..Len(stack) :
           /\ Partitioned(stack[i])
           /\ Len(stack[i].arr) >= 3
           /\ stack[i].pc = "greater"
    /\ Len(stack[1].less) # Len(stack[1].greater)

\* C5: while quicksort_non_random sorts generate_worst_case(n), every call on
\* m >= 2 elements, at every depth, has an empty less partition and a greater
\* partition of m-1 elements.
WorstCaseDegenerate ==
    gen = "worst" =>
        \A i \in 1..Len(stack) :
            Partitioned(stack[i]) =>
                /\ stack[i].less = <<>>
                /\ Len(stack[i].greater) = Len(stack[i].arr) - 1

WorstCaseDegenerateWitness ==
    /\ gen = "worst"
    /\ \E i \in 3..Len(stack) : Partitioned(stack[i]) /\ stack[i].pc = "greater"

\* The trace of one call at depth d on the elements of a starts at tr[pos]:
\* either its base-case line, or its pivot line and its partition line followed
\* by the whole trace of the call on less and then the whole trace of the call
\* on greater, both at depth d+1.  The position after it, or 0.
RECURSIVE ParseCall(_, _, _, _)
ParseCall(tr, pos, d, a) ==
    IF pos = 0 \/ pos > Len(tr) THEN 0
    ELSE IF tr[pos].depth # d THEN 0
    ELSE IF tr[pos].line = "base"
         THEN IF tr[pos].x = a /\ Len(a) <= 1 THEN pos + 1 ELSE 0
    ELSE IF /\ tr[pos].line = "pivot"
            /\ BagOf(tr[pos].y) = BagOf(a)
            /\ pos + 1 <= Len(tr)
            /\ tr[pos + 1].line = "part"
            /\ tr[pos + 1].depth = d
         THEN ParseCall(tr, ParseCall(tr, pos + 2, d + 1, tr[pos + 1].x),
                        d + 1, tr[pos + 1].y)
    ELSE 0

PreOrder(tr, a) == ParseCall(tr, 1, 0, a) = Len(tr) + 1

\* C6: in both tracing sorters the call at nesting level d prints at depth d
\* (the outermost at 0), and the complete trace is in pre-order: the lines of a
\* call come before all lines of the calls it makes, and all lines of the call
\* on less come before any line of the call on greater.
TracePreOrder ==
    IsDebug(func) =>
        /\ \A i \in 1..Len(stack) : stack[i].depth = i - 1
        /\ phase = "returned" => PreOrder(out, input)

TracePreOrderWitness ==
    /\ phase = "returned"
    /\ func = "quicksort_random_debug"
    /\ \E j \in 1..Len(out) : out[j].depth = 2
    /\ \E j \in 1..Len(out) :
           out[j].line = "part" /\ out[j].x # <<>> /\ out[j].y # <<>>

\* C7: sorting the value a sorter returned, with the same sorter and whatever
\* pivot indices are drawn in either application, returns that value again.
Idempotent ==
    (round = 2 /\ phase = "returned") => result = firstResult

IdempotentWitness ==
    /\ round = 2
    /\ phase = "returned"
    /\ func = "quicksort_random"
    /\ Len(result) >= 3
    /\ callerArr # input

Matched(entry) == entry.non_random = entry.expected /\ entry.random = entry.expected

\* C8: test_quicksort takes the arrays in order; when an AssertionError has
\* been raised, it was raised at the first array for which one of the two
\* results differs from the reference order and no later array has been sorted
\* or printed; the success message is printed only after every array matched
\* under both policies.
FailFast ==
    /\ Len(tLog) <= Len(test_arrays)
    /\ \A j \in 1..Len(tLog) : tLog[j].arr = test_arrays[j]
    /\ tFailure # "none" =>
           /\ Len(tLog) = tIdx
           /\ ~Matched(tLog[tIdx])
           /\ \A j \in 1..tIdx - 1 : Matched(tLog[j])
           /\ tMsg = ""
    /\ tFailure = "none" => \A j \in 1..Len(tLog) : Matched(tLog[j])
    /\ tMsg # "" =>
           /\ tFailure = "none"
           /\ Len(tLog) = Len(test_arrays)
           /\ \A j \in 1..Len(tLog) : Matched(tLog[j])

FailFastWitness ==
    /\ tFailure = "Random pivot quicksort failed!"
    /\ tIdx > 1
    /\ tIdx < Len(test_arrays)

\* C9: while quicksort_non_random sorts generate_worst_case(n), n >= 1, at most
\* n calls are active at once and exactly n at the deepest point, which for
\* every benchmarked size is below the recursion limit.
WorstCaseDepth ==
    (gen = "worst" /\ n >= 1) =>
        /\ Len(stack) <= n
        /\ maxActive <= n
        /\ phase = "returned" => maxActive = n
        /\ n <= MaxBenchSize => Len(stack) < RecursionLimit
        /\ MaxBenchSize < RecursionLimit

WorstCaseDepthWitness ==
    /\ gen = "worst"
    /\ n >= 3
    /\ Len(stack) = n
    /\ Top.pc = "ret"

ShorterChildren ==
    \A i \in 2..Len(stack) : Len(stack[i].arr) <= Len(stack[i - 1].arr) - 1

\* C10: every call is made on a list shorter than its caller's by at least one
\* element, and every top-level call that has started returns.
Terminates ==
    /\ []ShorterChildren
    /\ (phase = "running") ~> (phase = "returned")

TerminatesWitness ==
    /\ phase = "returned"
    /\ IsRandom(func)
    /\ Len(input) >= 3
    /\ maxActive >= 3

====
